---- MODULE Spec2Model ----
(***************************************************************************)
(* Candidate selection of the dense-mapping constraints plugin             *)
(* (dense-mapping-selection.cc): the quality pass over the loop-closure    *)
(* edges of the map, the strategy pass (random / distance) and the         *)
(* orchestrator selectAlignmentCandidatePairs.                             *)
(*                                                                         *)
(* The map is modelled by its loop-closure edges (the only edges that      *)
(* getOutgoingOfType(kLoopClosure, ...) returns, and so the only ones the  *)
(* code reads or removes) and by the position p_M_I of each vertex.        *)
(* Switch variables, positions and the minimum distance are integers;      *)
(* the Euclidean norm is compared through its square.                      *)
(***************************************************************************)
EXTENDS Integers, Sequences, FiniteSets, TLC

VARIABLES
  pc,                              \* position inside selectAlignmentCandidatePairs
  config,                          \* SelectionConfig
  map_edges,                       \* VIMap: edge id -> loop-closure edge
  p_M_I,                           \* VIMap: vertex id -> position
  candidate_pairs,                 \* AlignmentCandidatePairs (a std::list)
  it,                              \* the list iterator of the running loop (1-based, Len+1 = end())
  constraints_to_delete_edge_ids,  \* EdgeIdSet of the quality pass
  remove_pending,                  \* the part of the deletion set the removal loop has not visited
  candidate_positions,             \* accepted positions of the distance strategy
  error_logged,                    \* LOG(ERROR) was written
  result,                          \* return value of selectAlignmentCandidatePairs
  \* history variables (never read by an action's guard or effect on program state)
  input_pairs,                     \* the collection handed to the quality pass
  input_edges,                     \* the edges of the map when the quality pass started
  strategy_input,                  \* the collection handed to the strategy pass
  inspected,                       \* edge ids that reached the classification in the inspector
  inspector_calls,                 \* candidate id -> number of inspector calls made for it
  remove_calls,                    \* edge id -> number of removeEdge calls
  accepted_pairs,                  \* the candidates whose position was accepted (distance)
  num_examined,                    \* loop iterations of the distance strategy
  stopped_early                    \* the distance loop left through break

vars == <<pc, config, map_edges, p_M_I, candidate_pairs, it,
          constraints_to_delete_edge_ids, remove_pending, candidate_positions,
          error_logged, result, input_pairs, input_edges, strategy_input,
          inspected, inspector_calls, remove_calls, accepted_pairs,
          num_examined, stopped_early>>

---------------------------------------------------------------------------
\* Bounds of the model.

\* largest number of candidates in the input collection
MaxCands == 2

\* largest number of candidates handed to the strategy pass on its own
MaxStrategyCands == 4

\* largest number of loop-closure edges in the map
MaxEdges == 2

\* vertices that candidates and edges of the quality pass refer to
QualityVertexIds == {1, 2}

\* candidate_B of the candidates handed to the strategy pass on its own (the
\* strategy pass never reads candidate_B)
StrategyVertexIdsB == {2}

\* vertices of the map
VertexIds == {1, 2, 3}

\* switch variable values of the edges
SwitchValues == {0, 1}

\* values of constraint_min_switch_variable_value
MinSwitchValues == {1}

\* values of min_distance_to_next_candidate
MinDistances == {-1, 0, 1, 2}

\* values of filter_strategy ("nearest" stands for every unrecognized value)
FilterStrategies == {"random", "distance", "nearest"}

\* position maps of the vertices: squared distances 1, 4, 5 and 0, 9, 9
VertexPositionMaps ==
  { (1 :> <<0, 0, 0>>) @@ (2 :> <<1, 0, 0>>) @@ (3 :> <<0, 2, 0>>),
    (1 :> <<0, 0, 0>>) @@ (2 :> <<0, 0, 0>>) @@ (3 :> <<2, 2, 1>>) }

---------------------------------------------------------------------------
\* Helpers.

Min(a, b) == IF a <= b THEN a ELSE b

Max(a, b) == IF a >= b THEN a ELSE b

Range(s) == {s[i] : i \in DOMAIN s}

RECURSIVE SortedSeq(_)
SortedSeq(S) ==
  IF S = {} THEN <<>>
  ELSE LET m == CHOOSE x \in S : \A y \in S : x <= y
       IN <<m>> \o SortedSeq(S \ {m})

\* std::list::erase(it): the element at the iterator leaves, the others keep
\* their order; the returned iterator is the same index.
Erase(list, i) ==
  SubSeq(list, 1, i - 1) \o SubSeq(list, i + 1, Len(list))

\* (position_A - p_M_I).norm() > min_distance_to_next_candidate
SquaredNorm(p, q) ==
  (p[1] - q[1]) * (p[1] - q[1]) + (p[2] - q[2]) * (p[2] - q[2])
    + (p[3] - q[3]) * (p[3] - q[3])

DistanceGreater(p, q, d) ==
  d < 0 \/ SquaredNorm(p, q) > d * d

---------------------------------------------------------------------------
\* hasGoodLoopClosureEdgeFromAToB

IsGoodEdgeStrict(cfg, edge) ==
  edge.switchVariable > cfg.constraint_min_switch_variable_value

IsGoodEdge(cfg, edge) ==
  edge.switchVariable >= cfg.constraint_min_switch_variable_value

ShouldDeleteIgnoringQuality(cfg, is_good_edge) ==
  cfg.recompute_invalid_constraints \/ cfg.recompute_all_constraints

ShouldDeleteOnlyBad(cfg, is_good_edge) ==
  ~is_good_edge /\ cfg.recompute_invalid_constraints

ShouldDelete(cfg, is_good_edge) ==
  (~is_good_edge /\ cfg.recompute_invalid_constraints)
    \/ cfg.recompute_all_constraints

\* insert of an std::unordered_set, kept as a duplicate-free sequence
EdgeIdVectorPushBack(s, edge_id) == Append(s, edge_id)

EdgeIdSetInsert(s, edge_id) ==
  IF edge_id \in Range(s) THEN s ELSE Append(s, edge_id)

\* map.getOutgoingOfType(kLoopClosure, vertex_id_A, &outgoing_lc_edges_A)
OutgoingLoopClosureEdges(map, vertex_id_A) ==
  SortedSeq({e \in DOMAIN map : map[e].from = vertex_id_A})

\* the for loop over outgoing_lc_edges_A
RECURSIVE InspectEdges(_, _, _, _, _)
InspectEdges(cfg, map, vertex_id_B, edge_ids, acc) ==
  IF edge_ids = <<>> THEN acc
  ELSE LET edge_id == Head(edge_ids)
           edge == map[edge_id]
           is_good_edge == IsGoodEdge(cfg, edge)
       IN IF edge.to # vertex_id_B
          THEN InspectEdges(cfg, map, vertex_id_B, Tail(edge_ids), acc)
          ELSE InspectEdges(cfg, map, vertex_id_B, Tail(edge_ids),
                 [has_good_edge |-> acc.has_good_edge \/ is_good_edge,
                  to_delete |-> IF ShouldDelete(cfg, is_good_edge)
                                THEN EdgeIdSetInsert(acc.to_delete, edge_id)
                                ELSE acc.to_delete,
                  inspected |-> acc.inspected \cup {edge_id}])

hasGoodLoopClosureEdgeFromAToB(cfg, map, vertex_id_A, vertex_id_B, to_delete) ==
  InspectEdges(cfg, map, vertex_id_B,
               OutgoingLoopClosureEdges(map, vertex_id_A),
               [has_good_edge |-> FALSE, to_delete |-> to_delete, inspected |-> {}])

\* has_good_lc_edge = hasGood(A, B) || hasGood(B, A): the second call is made
\* only when the first returned false.
HasGoodLcEdge(cfg, map, vertex_id_A, vertex_id_B, to_delete) ==
  LET first == hasGoodLoopClosureEdgeFromAToB(cfg, map, vertex_id_A, vertex_id_B, to_delete)
      second == hasGoodLoopClosureEdgeFromAToB(cfg, map, vertex_id_B, vertex_id_A, first.to_delete)
  IN IF first.has_good_edge
     THEN [has_good_edge |-> TRUE, to_delete |-> first.to_delete,
           inspected |-> first.inspected, calls |-> 1]
     ELSE [has_good_edge |-> second.has_good_edge, to_delete |-> second.to_delete,
           inspected |-> first.inspected \cup second.inspected, calls |-> 2]

---------------------------------------------------------------------------
\* Initial states: selectAlignmentCandidatePairs has been called.

CandidateLists(vertexIdsA, vertexIdsB, validities, maxLen) ==
  UNION { { [i \in 1..n |-> [id |-> i, A |-> f[i].A, B |-> f[i].B, valid |-> f[i].valid]] :
            f \in [1..n -> [A : vertexIdsA, B : vertexIdsB, valid : validities]] } :
          n \in 0..maxLen }

EdgeRank(edge) == (edge.from * 4 + edge.to) * 4 + edge.switchVariable

\* edge ids are opaque: the maps are taken up to renaming of the ids
EdgeMaps(vertexIds) ==
  UNION { { m \in [1..n -> [from : vertexIds, to : vertexIds, switchVariable : SwitchValues]] :
            \A i \in 1..(n - 1) : EdgeRank(m[i]) <= EdgeRank(m[i + 1]) } :
          n \in 0..MaxEdges }

QualityConfigs ==
  [recompute_all_constraints : BOOLEAN,
   recompute_invalid_constraints : BOOLEAN,
   constraint_min_switch_variable_value : MinSwitchValues,
   max_number_of_candidates : {-1},
   filter_strategy : {"random"},
   min_distance_to_next_candidate : {0}]

StrategyConfigs ==
  [recompute_all_constraints : {FALSE},
   recompute_invalid_constraints : {FALSE},
   constraint_min_switch_variable_value : MinSwitchValues,
   max_number_of_candidates : (-1)..MaxStrategyCands,
   filter_strategy : FilterStrategies,
   min_distance_to_next_candidate : MinDistances]

SelectionConfigs ==
  [recompute_all_constraints : BOOLEAN,
   recompute_invalid_constraints : BOOLEAN,
   constraint_min_switch_variable_value : MinSwitchValues,
   max_number_of_candidates : (-1)..MaxCands,
   filter_strategy : FilterStrategies,
   min_distance_to_next_candidate : MinDistances]

InitHistory ==
  /\ input_pairs = candidate_pairs
  /\ input_edges = map_edges
  /\ strategy_input = IF pc = "strategy" THEN candidate_pairs ELSE <<>>
  /\ inspected = {}
  /\ inspector_calls = [i \in 1..Len(candidate_pairs) |-> 0]
  /\ remove_calls = [e \in DOMAIN map_edges |-> 0]
  /\ accepted_pairs = <<>>
  /\ num_examined = 0
  /\ stopped_early = FALSE

InitLocals ==
  /\ it = 1
  /\ constraints_to_delete_edge_ids = <<>>
  /\ remove_pending = <<>>
  /\ candidate_positions = <<>>
  /\ error_logged = FALSE
  /\ result = "none"

\* the whole operation, from its entry
Init ==
  /\ pc = "quality_scan"
  /\ config \in SelectionConfigs
  /\ map_edges \in EdgeMaps(QualityVertexIds)
  /\ p_M_I \in VertexPositionMaps
  /\ candidate_pairs \in CandidateLists(QualityVertexIds, QualityVertexIds, BOOLEAN, MaxCands)
  /\ InitLocals
  /\ InitHistory

\* the quality pass, from the entry of the operation
InitQuality ==
  /\ pc = "quality_scan"
  /\ config \in QualityConfigs
  /\ map_edges \in EdgeMaps(QualityVertexIds)
  /\ p_M_I = CHOOSE m \in VertexPositionMaps : m[1] # m[2]
  /\ candidate_pairs \in CandidateLists(QualityVertexIds, QualityVertexIds, BOOLEAN, MaxCands)
  /\ InitLocals
  /\ InitHistory

\* the strategy pass, from the return of a quality pass that found no edge in
\* the map: the collection holds valid candidates only
InitStrategy ==
  /\ pc = "strategy"
  /\ config \in StrategyConfigs
  /\ map_edges = <<>>
  /\ p_M_I \in VertexPositionMaps
  /\ candidate_pairs \in CandidateLists(VertexIds, StrategyVertexIdsB, {TRUE}, MaxStrategyCands)
  /\ InitLocals
  /\ InitHistory

---------------------------------------------------------------------------
\* filter_candidates_based_on_quality

IsValidUnchecked(alignment) == TRUE

\* alignment.isValid()
IsValid(alignment) == alignment.valid

\* one iteration of the while loop over the candidates
QualityStep ==
  /\ pc = "quality_scan"
  /\ it <= Len(candidate_pairs)
  /\ LET alignment == candidate_pairs[it]
         r == HasGoodLcEdge(config, map_edges, alignment.A, alignment.B,
                            constraints_to_delete_edge_ids)
     IN IF ~IsValid(alignment)
        THEN /\ candidate_pairs' = Erase(candidate_pairs, it)
             /\ UNCHANGED <<it, constraints_to_delete_edge_ids, inspected, inspector_calls>>
        ELSE /\ constraints_to_delete_edge_ids' = r.to_delete
             /\ inspected' = inspected \cup r.inspected
             /\ inspector_calls' = [inspector_calls EXCEPT ![alignment.id] = r.calls]
             /\ IF r.has_good_edge /\ ~config.recompute_all_constraints
                THEN candidate_pairs' = Erase(candidate_pairs, it) /\ it' = it
                ELSE candidate_pairs' = candidate_pairs /\ it' = it + 1
  /\ UNCHANGED <<pc, config, map_edges, p_M_I, remove_pending, candidate_positions,
                 error_logged, result, input_pairs, input_edges, strategy_input,
                 remove_calls, accepted_pairs, num_examined, stopped_early>>

\* the loop ends; the removal loop runs over the deletion set only if one of
\* the recompute options is set
QualityScanEnd ==
  /\ pc = "quality_scan"
  /\ it > Len(candidate_pairs)
  /\ pc' = "quality_remove"
  /\ remove_pending' = IF config.recompute_all_constraints
                            \/ config.recompute_invalid_constraints
                        THEN constraints_to_delete_edge_ids
                        ELSE <<>>
  /\ UNCHANGED <<config, map_edges, p_M_I, candidate_pairs, it,
                 constraints_to_delete_edge_ids, candidate_positions,
                 error_logged, result, input_pairs, input_edges, strategy_input,
                 inspected, inspector_calls, remove_calls, accepted_pairs,
                 num_examined, stopped_early>>

\* one iteration of the removal loop: map_ptr->removeEdge(edge_id), fatal if
\* the edge is absent. The iteration order of the unordered set is any order.
QualityRemoveEdge ==
  /\ pc = "quality_remove"
  /\ \E i \in DOMAIN remove_pending :
       LET edge_id == remove_pending[i]
       IN /\ remove_pending' = Erase(remove_pending, i)
          /\ remove_calls' = [remove_calls EXCEPT ![edge_id] = @ + 1]
          /\ IF edge_id \in DOMAIN map_edges
             THEN /\ map_edges' = [e \in DOMAIN map_edges \ {edge_id} |-> map_edges[e]]
                  /\ pc' = pc
             ELSE /\ map_edges' = map_edges
                  /\ pc' = "aborted"
  /\ UNCHANGED <<config, p_M_I, candidate_pairs, it,
                 constraints_to_delete_edge_ids, candidate_positions,
                 error_logged, result, input_pairs, input_edges, strategy_input,
                 inspected, inspector_calls, accepted_pairs,
                 num_examined, stopped_early>>

\* the quality pass returns and the strategy pass is entered
QualityReturn ==
  /\ pc = "quality_remove"
  /\ remove_pending = <<>>
  /\ pc' = "strategy"
  /\ strategy_input' = candidate_pairs
  /\ UNCHANGED <<config, map_edges, p_M_I, candidate_pairs, it,
                 constraints_to_delete_edge_ids, remove_pending, candidate_positions,
                 error_logged, result, input_pairs, input_edges,
                 inspected, inspector_calls, remove_calls, accepted_pairs,
                 num_examined, stopped_early>>

NextQuality ==
  \/ QualityStep
  \/ QualityScanEnd
  \/ QualityRemoveEdge
  \/ QualityReturn

SpecQuality == InitQuality /\ [][NextQuality]_vars

---------------------------------------------------------------------------
\* filter_candidates_based_on_strategy

StrategyBranchWithoutElse(cfg) ==
  IF cfg.max_number_of_candidates < 0 THEN "disabled"
  ELSE IF cfg.filter_strategy = "random" THEN "random"
  ELSE "distance"

\* the early return and the if / else if / else over filter_strategy
StrategyBranch(cfg) ==
  IF cfg.max_number_of_candidates < 0 THEN "disabled"
  ELSE IF cfg.filter_strategy = "random" THEN "random"
  ELSE IF cfg.filter_strategy = "distance" THEN "distance"
  ELSE "unknown"

NumCandidatesKept(n_candidates, max_number_of_candidates) ==
  Min(n_candidates, max_number_of_candidates)

\* n_candidates - std::min(n_candidates, max_number_of_candidates)
NumCandidatesToDelete(n_candidates, max_number_of_candidates) ==
  n_candidates - Min(n_candidates, max_number_of_candidates)

\* std::all_of over candidate_positions
ValidCandidate(position_A, positions, min_distance_to_next_candidate) ==
  \A k \in DOMAIN positions :
    DistanceGreater(position_A, positions[k], min_distance_to_next_candidate)

ExceededCap(n_accepted, max_number_of_candidates) ==
  n_accepted > max_number_of_candidates

\* candidate_positions.size() >= max_number_of_candidates
ReachedCap(n_accepted, max_number_of_candidates) ==
  n_accepted >= max_number_of_candidates

\* max_number_of_candidates < 0: return
StrategyDisabled ==
  /\ pc = "strategy"
  /\ StrategyBranch(config) = "disabled"
  /\ pc' = "select_return"
  /\ UNCHANGED <<config, map_edges, p_M_I, candidate_pairs, it,
                 constraints_to_delete_edge_ids, remove_pending, candidate_positions,
                 error_logged, result, input_pairs, input_edges, strategy_input,
                 inspected, inspector_calls, remove_calls, accepted_pairs,
                 num_examined, stopped_early>>

\* filter_candidates_randomly: v is any permutation of the iterators; the
\* first n_candidates_to_delete of them are erased from the list
FilterRandomly ==
  /\ pc = "strategy"
  /\ StrategyBranch(config) = "random"
  /\ LET n_candidates == Len(candidate_pairs)
         n_candidates_to_delete ==
           NumCandidatesToDelete(n_candidates, config.max_number_of_candidates)
     IN \E v \in Permutations(1..n_candidates) :
          LET erased == {v[k] : k \in 1..n_candidates_to_delete}
              kept == SortedSeq((1..n_candidates) \ erased)
          IN candidate_pairs' = [k \in 1..Len(kept) |-> candidate_pairs[kept[k]]]
  /\ pc' = "select_return"
  /\ UNCHANGED <<config, map_edges, p_M_I, it,
                 constraints_to_delete_edge_ids, remove_pending, candidate_positions,
                 error_logged, result, input_pairs, input_edges, strategy_input,
                 inspected, inspector_calls, remove_calls, accepted_pairs,
                 num_examined, stopped_early>>

\* filter_candidates_based_on_distance is entered
DistanceBegin ==
  /\ pc = "strategy"
  /\ StrategyBranch(config) = "distance"
  /\ pc' = "distance_scan"
  /\ it' = 1
  /\ candidate_positions' = <<>>
  /\ UNCHANGED <<config, map_edges, p_M_I, candidate_pairs,
                 constraints_to_delete_edge_ids, remove_pending,
                 error_logged, result, input_pairs, input_edges, strategy_input,
                 inspected, inspector_calls, remove_calls, accepted_pairs,
                 num_examined, stopped_early>>

\* one iteration of the while loop of the distance strategy
DistanceStep ==
  /\ pc = "distance_scan"
  /\ it <= Len(candidate_pairs)
  /\ LET alignment == candidate_pairs[it]
         position_A == p_M_I[alignment.A]
         valid_candidate == ValidCandidate(position_A, candidate_positions,
                                           config.min_distance_to_next_candidate)
     IN IF valid_candidate
        THEN /\ candidate_positions' = Append(candidate_positions, position_A)
             /\ accepted_pairs' = Append(accepted_pairs, alignment)
             /\ candidate_pairs' = candidate_pairs
             /\ IF ReachedCap(Len(candidate_positions) + 1,
                              config.max_number_of_candidates)
                THEN pc' = "select_return" /\ it' = it /\ stopped_early' = TRUE
                ELSE pc' = pc /\ it' = it + 1 /\ stopped_early' = stopped_early
        ELSE /\ candidate_pairs' = Erase(candidate_pairs, it)
             /\ UNCHANGED <<pc, it, candidate_positions, accepted_pairs, stopped_early>>
  /\ num_examined' = num_examined + 1
  /\ UNCHANGED <<config, map_edges, p_M_I,
                 constraints_to_delete_edge_ids, remove_pending,
                 error_logged, result, input_pairs, input_edges, strategy_input,
                 inspected, inspector_calls, remove_calls>>

\* the loop of the distance strategy ends at end()
DistanceScanEnd ==
  /\ pc = "distance_scan"
  /\ it > Len(candidate_pairs)
  /\ pc' = "select_return"
  /\ UNCHANGED <<config, map_edges, p_M_I, candidate_pairs, it,
                 constraints_to_delete_edge_ids, remove_pending, candidate_positions,
                 error_logged, result, input_pairs, input_edges, strategy_input,
                 inspected, inspector_calls, remove_calls, accepted_pairs,
                 num_examined, stopped_early>>

\* LOG(ERROR) << "Unknown filter strategy "
UnknownStrategy ==
  /\ pc = "strategy"
  /\ StrategyBranch(config) = "unknown"
  /\ error_logged' = TRUE
  /\ pc' = "select_return"
  /\ UNCHANGED <<config, map_edges, p_M_I, candidate_pairs, it,
                 constraints_to_delete_edge_ids, remove_pending, candidate_positions,
                 result, input_pairs, input_edges, strategy_input,
                 inspected, inspector_calls, remove_calls, accepted_pairs,
                 num_examined, stopped_early>>

\* selectAlignmentCandidatePairs: return true
SelectReturn ==
  /\ pc = "select_return"
  /\ result' = TRUE
  /\ pc' = "done"
  /\ UNCHANGED <<config, map_edges, p_M_I, candidate_pairs, it,
                 constraints_to_delete_edge_ids, remove_pending, candidate_positions,
                 error_logged, input_pairs, input_edges, strategy_input,
                 inspected, inspector_calls, remove_calls, accepted_pairs,
                 num_examined, stopped_early>>

NextStrategy ==
  \/ StrategyDisabled
  \/ FilterRandomly
  \/ DistanceBegin
  \/ DistanceStep
  \/ DistanceScanEnd
  \/ UnknownStrategy
  \/ SelectReturn

SpecStrategy == InitStrategy /\ [][NextStrategy]_vars

Next ==
  \/ QualityStep
  \/ QualityScanEnd
  \/ QualityRemoveEdge
  \/ QualityReturn
  \/ StrategyDisabled
  \/ FilterRandomly
  \/ DistanceBegin
  \/ DistanceStep
  \/ DistanceScanEnd
  \/ UnknownStrategy
  \/ SelectReturn

Spec == Init /\ [][Next]_vars

---------------------------------------------------------------------------
\* Properties.

\* the quality pass has just returned (the strategy pass has not yet acted)
QualityPassEnded == pc = "strategy"

\* the strategy pass has been entered
StrategyPassEntered == pc \in {"strategy", "distance_scan", "select_return", "done"}

\* the strategy pass has returned
StrategyPassEnded == pc \in {"select_return", "done"}

Threshold == config.constraint_min_switch_variable_value

Cap == config.max_number_of_candidates

\* edge e of edges runs from a to b
Connects(edges, e, a, b) == edges[e].from = a /\ edges[e].to = b

\* edge e of edges links the two vertices of candidate c, in either direction
Between(edges, e, c) ==
  Connects(edges, e, c.A, c.B) \/ Connects(edges, e, c.B, c.A)

GoodEdgeBetween(edges, c) ==
  \E e \in DOMAIN edges : Between(edges, e, c) /\ edges[e].switchVariable >= Threshold

Retained(c) == \E k \in DOMAIN candidate_pairs : candidate_pairs[k] = c

\* sub is made of elements of full, each at most once, in the order of full
\* (id is the identity of the list node; the ids of the input ascend)
IsSubCollection(sub, full) ==
  /\ \A k \in DOMAIN sub : \E j \in DOMAIN full : sub[k] = full[j]
  /\ \A k \in 1..(Len(sub) - 1) : sub[k].id < sub[k + 1].id

FarApart(c1, c2) ==
  LET d == config.min_distance_to_next_candidate
      p == p_M_I[c1.A]
      q == p_M_I[c2.A]
  IN d < 0 \/ SquaredNorm(p, q) > d * d

\* C1: after the strategy pass with filter_strategy = "distance" and any cap
\* >= 0, every two distinct candidates left in the collection have candidate_A
\* positions farther apart than min_distance_to_next_candidate.
C1_AllRemainingFarApart ==
  (StrategyPassEnded /\ config.filter_strategy = "distance" /\ Cap >= 0)
    => \A i, j \in DOMAIN candidate_pairs :
         i # j => FarApart(candidate_pairs[i], candidate_pairs[j])

\* C2: after the strategy pass with filter_strategy = "random" and cap k >= 0
\* on n candidates, the collection has exactly min(n, k) candidates whatever
\* the shuffle gave (unchanged when k >= n, empty when k = 0), each of them
\* one of the original candidates.
C2_RandomKeepsMin ==
  (StrategyPassEnded /\ config.filter_strategy = "random" /\ Cap >= 0)
    => /\ Len(candidate_pairs) = Min(Len(strategy_input), Cap)
       /\ IsSubCollection(candidate_pairs, strategy_input)
       /\ Cap >= Len(strategy_input) => candidate_pairs = strategy_input
       /\ Cap = 0 => candidate_pairs = <<>>

C2_Witness ==
  /\ pc = "done"
  /\ config.filter_strategy = "random"
  /\ Cap > 0
  /\ Cap < Len(strategy_input)
  /\ Len(candidate_pairs) = Cap
  /\ candidate_pairs[1] # strategy_input[1]

\* C3: with recompute_all_constraints = false the quality pass removes every
\* valid candidate (A,B) for which the map held, when the pass started, a
\* loop-closure edge A->B or B->A with switchVariable >= threshold, and
\* retains every valid candidate for which it held none.
C3_GoodEdgeSuppression ==
  (QualityPassEnded /\ ~config.recompute_all_constraints)
    => \A i \in DOMAIN input_pairs :
         input_pairs[i].valid
           => (Retained(input_pairs[i]) <=> ~GoodEdgeBetween(input_edges, input_pairs[i]))

C3_Witness ==
  /\ QualityPassEnded
  /\ ~config.recompute_all_constraints
  /\ \E i, j \in DOMAIN input_pairs :
       /\ input_pairs[i].valid /\ input_pairs[j].valid
       /\ ~Retained(input_pairs[i])
       /\ ~\E e \in DOMAIN input_edges :
            Connects(input_edges, e, input_pairs[i].A, input_pairs[i].B)
       /\ Retained(input_pairs[j])
       /\ \E e \in DOMAIN input_edges : Between(input_edges, e, input_pairs[j])

\* C4: with recompute_all_constraints = true the quality pass retains every
\* valid candidate that has a good edge, and every edge the inspector
\* inspected, good or bad, is in the deletion set and gone from the map when
\* the pass ends.
C4_RecomputeAll ==
  (QualityPassEnded /\ config.recompute_all_constraints)
    => /\ \A i \in DOMAIN input_pairs :
            (input_pairs[i].valid /\ GoodEdgeBetween(input_edges, input_pairs[i]))
              => Retained(input_pairs[i])
       /\ \A e \in inspected :
            /\ e \in Range(constraints_to_delete_edge_ids)
            /\ e \notin DOMAIN map_edges

C4_Witness ==
  /\ QualityPassEnded
  /\ config.recompute_all_constraints
  /\ \E i \in DOMAIN input_pairs :
       /\ input_pairs[i].valid
       /\ Retained(input_pairs[i])
       /\ \E e1, e2 \in inspected :
            /\ Between(input_edges, e1, input_pairs[i])
            /\ Between(input_edges, e2, input_pairs[i])
            /\ input_edges[e1].switchVariable >= Threshold
            /\ input_edges[e2].switchVariable < Threshold

\* C5: with recompute_invalid_constraints = true and recompute_all_constraints
\* = false every edge the quality pass removes has switchVariable < threshold,
\* and every edge with switchVariable >= threshold that was in the map before
\* the pass is still in it.
C5_OnlyBadEdgesRemoved ==
  (config.recompute_invalid_constraints /\ ~config.recompute_all_constraints)
    => \A e \in DOMAIN input_edges :
         /\ (e \notin DOMAIN map_edges \/ remove_calls[e] > 0)
              => input_edges[e].switchVariable < Threshold
         /\ input_edges[e].switchVariable >= Threshold
              => (e \in DOMAIN map_edges /\ map_edges[e] = input_edges[e])

C5_Witness ==
  /\ QualityPassEnded
  /\ config.recompute_invalid_constraints
  /\ ~config.recompute_all_constraints
  /\ \E e1, e2 \in inspected :
       /\ input_edges[e1].switchVariable >= Threshold
       /\ e1 \in DOMAIN map_edges
       /\ input_edges[e2].switchVariable < Threshold
       /\ e2 \notin DOMAIN map_edges

\* C6: the quality pass only removes entries: at every point the collection
\* is a sub-collection of the input (no growth, no new candidate, order
\* kept), and when the pass has ended it holds no invalid candidate.
C6_QualityOnlyRemoves ==
  /\ IsSubCollection(candidate_pairs, input_pairs)
  /\ Len(candidate_pairs) <= Len(input_pairs)
  /\ QualityPassEnded => \A k \in DOMAIN candidate_pairs : candidate_pairs[k].valid

C6_Witness ==
  /\ QualityPassEnded
  /\ Len(candidate_pairs) = 1
  /\ Len(input_pairs) = 2
  /\ ~input_pairs[1].valid
  /\ input_pairs[2].valid

\* C7: the strategy pass leaves the collection as it was whenever
\* max_number_of_candidates is negative and whenever filter_strategy is
\* neither "random" nor "distance"; in the latter case with a cap >= 0 the
\* error is logged, nothing aborts and select returns true.
C7_StrategyPassThrough ==
  /\ (StrategyPassEntered /\ (Cap < 0 \/ config.filter_strategy \notin {"random", "distance"}))
       => candidate_pairs = strategy_input
  /\ (Cap >= 0 /\ config.filter_strategy \notin {"random", "distance"})
       => /\ pc # "aborted"
          /\ StrategyPassEnded => error_logged
          /\ pc = "done" => result = TRUE

C7_Witness ==
  /\ pc = "done"
  /\ Cap = 1
  /\ config.filter_strategy \notin {"random", "distance"}
  /\ error_logged
  /\ result = TRUE
  /\ Len(candidate_pairs) >= 2
  /\ ~FarApart(candidate_pairs[1], candidate_pairs[2])

\* the candidates the distance loop has not examined: the input from position
\* num_examined + 1 on
UnexaminedSuffix ==
  SubSeq(strategy_input, num_examined + 1, Len(strategy_input))

DistanceStrategyRuns ==
  /\ pc \in {"distance_scan", "select_return", "done"}
  /\ config.filter_strategy = "distance"
  /\ Cap >= 0

\* the collection is the accepted candidates followed by the input suffix
\* that was not examined
AcceptedThenUntouched ==
  /\ candidate_pairs = accepted_pairs \o UnexaminedSuffix
  /\ Len(candidate_positions) = Len(accepted_pairs)
  /\ \A k \in DOMAIN accepted_pairs : candidate_positions[k] = p_M_I[accepted_pairs[k].A]

\* C8 as stated: the distance loop stops as soon as the number of accepted
\* candidates reaches max_number_of_candidates (so it never accepts more),
\* and the collection is the accepted candidates followed by the untouched
\* input suffix.
C8_StopsAtCap ==
  DistanceStrategyRuns
    => /\ Len(candidate_positions) <= Cap
       /\ AcceptedThenUntouched

\* C8 amended: the cap is tested only after an acceptance, so the loop stops
\* as soon as an acceptance brings the number of accepted candidates to
\* max(cap, 1): while it runs fewer are accepted, when it has stopped early
\* exactly that many; at every point the collection is the accepted
\* candidates followed by the input suffix that was not examined.
C8_StopsAfterAcceptance ==
  DistanceStrategyRuns
    => /\ AcceptedThenUntouched
       /\ pc = "distance_scan" => Len(candidate_positions) < Max(Cap, 1)
       /\ stopped_early => Len(candidate_positions) = Max(Cap, 1)
       /\ (StrategyPassEnded /\ ~stopped_early)
            => (Len(candidate_positions) < Max(Cap, 1) /\ UnexaminedSuffix = <<>>)

C8_Witness ==
  /\ pc = "done"
  /\ config.filter_strategy = "distance"
  /\ stopped_early
  /\ Cap = 2
  /\ Len(accepted_pairs) = 2
  /\ num_examined = 3
  /\ Len(strategy_input) = 4
  /\ candidate_pairs[3] = strategy_input[4]
  /\ ~FarApart(candidate_pairs[3], candidate_pairs[1])

\* C9: for every valid candidate (A,B) the quality pass examines, the
\* inspector is called for A->B and for B->A (inspector_calls records the
\* calls made), both feeding the same deletion set, so every edge between A
\* and B in either direction that meets the deletion condition ((not good
\* and recompute_invalid_constraints) or recompute_all_constraints) is in the
\* deletion set when the scan has ended.
C9_BothDirectionsInspected ==
  (pc = "quality_remove" \/ QualityPassEnded)
    => \A i \in DOMAIN input_pairs :
         input_pairs[i].valid
           => \A e \in DOMAIN input_edges :
                ( /\ Between(input_edges, e, input_pairs[i])
                  /\ \/ ( /\ input_edges[e].switchVariable < Threshold
                          /\ config.recompute_invalid_constraints )
                     \/ config.recompute_all_constraints )
                  => e \in Range(constraints_to_delete_edge_ids)

\* C10: the quality pass does not touch the map while it scans the
\* candidates, never calls removeEdge on an absent edge, removes each edge id
\* at most once, and leaves the map as it was when neither recompute option
\* is set.
C10_RemovalsAfterScan ==
  /\ pc # "aborted"
  /\ pc = "quality_scan"
       => (map_edges = input_edges /\ \A e \in DOMAIN remove_calls : remove_calls[e] = 0)
  /\ \A e \in DOMAIN remove_calls : remove_calls[e] <= 1
  /\ \A e \in DOMAIN input_edges : e \in DOMAIN map_edges <=> remove_calls[e] = 0
  /\ (~config.recompute_all_constraints /\ ~config.recompute_invalid_constraints)
       => map_edges = input_edges

C10_Witness ==
  /\ QualityPassEnded
  /\ Len(input_pairs) = 2
  /\ input_pairs[1].valid /\ input_pairs[2].valid
  /\ input_pairs[1].A # input_pairs[1].B
  /\ input_pairs[2].A = input_pairs[1].B
  /\ input_pairs[2].B = input_pairs[1].A
  /\ Retained(input_pairs[1]) /\ Retained(input_pairs[2])
  /\ \E e \in inspected :
       /\ Connects(input_edges, e, input_pairs[1].A, input_pairs[1].B)
       /\ remove_calls[e] = 1
       /\ e \notin DOMAIN map_edges

====
